---------------------------- MODULE Spec2Model ----------------------------
(***************************************************************************)
(* Model of src/app2.py: the "Analizar Conversacion con IA" run of         *)
(* main_app.  The downloaded replies and quotes are deduplicated by URL,   *)
(* concatenated, and every row with text is classified by clasificar_tweet *)
(* on a ThreadPoolExecutor of 5 workers; the main thread collects the      *)
(* futures with as_completed and writes resultados_sent by index.          *)
(*                                                                         *)
(* Spec is the whole run; SpecJusta is the run under the scheduling the    *)
(* code relies on; SpecNorm applies the normalisation of line 237 to a     *)
(* set of responses.                                                       *)
(*                                                                         *)
(* Strings are sequences of one-character strings, so that strip, upper    *)
(* and the [:8] slice are computed character by character.  Positions are  *)
(* 1-based here (position i of the model is Python index i-1).             *)
(***************************************************************************)
EXTENDS Integers, Sequences, FiniteSets

\* ------------------------------------------------------------------ bounds
\* Largest number of items the two scrapers return together in one run.
MaxItems == 6

\* Largest number of items the quote scraper returns in one run.
MaxCitas == 2

\* ------------------------------------------------------- program constants
\* ThreadPoolExecutor(max_workers=5)
max_workers == 5
\* .strip().upper()[:8]
LargoPrefijo == 8

\* ----------------------------------------------------------------- strings
Espacios == {" ", "\t", "\n"}

Minusculas ==
  <<"a","b","c","d","e","f","g","h","i","j","k","l","m",
    "n","o","p","q","r","s","t","u","v","w","x","y","z">>

Mayusculas ==
  <<"A","B","C","D","E","F","G","H","I","J","K","L","M",
    "N","O","P","Q","R","S","T","U","V","W","X","Y","Z">>

Minimo(S) == CHOOSE x \in S : \A y \in S : x <= y

Maximo(S) == CHOOSE x \in S : \A y \in S : x >= y

\* The element of a one-element set.  The string operators below bind their
\* argument through it (v \in {s}), so that the argument is computed once.
Unico(S) == CHOOSE x \in S : TRUE

\* The part of v between its first and its last position in the set.
Recorte(v, visibles) ==
  IF visibles = {} THEN <<>>
  ELSE SubSeq(v, Minimo(visibles), Maximo(visibles))

\* str.strip(): drops leading and trailing whitespace.
strip(s) ==
  Unico({ Recorte(v, {i \in 1..Len(v) : v[i] \notin Espacios}) : v \in {s} })

MayusculaDe(c) ==
  IF \E i \in 1..Len(Minusculas) : Minusculas[i] = c
  THEN Mayusculas[CHOOSE i \in 1..Len(Minusculas) : Minusculas[i] = c]
  ELSE c

\* str.upper()
upper(s) == Unico({ [i \in 1..Len(v) |-> MayusculaDe(v[i])] : v \in {s} })

\* s[:n]
Prefijo(s, n) ==
  Unico({ SubSeq(v, 1, IF Len(v) < n THEN Len(v) ELSE n) : v \in {s} })

POSITIVO == <<"P","O","S","I","T","I","V","O">>

NEGATIVO == <<"N","E","G","A","T","I","V","O">>

NEUTRO == <<"N","E","U","T","R","O">>

\* for tipo in ["POSITIVO", "NEGATIVO", "NEUTRO"]
Categorias == {POSITIVO, NEGATIVO, NEUTRO}


\* ------------------------------------------------------------ cell values
\* A cell of the "text" column: a str, a missing value (None/NaN) or a
\* number; s is str(t).
Str(s) == [tipo |-> "str", s |-> s]

Nulo == [tipo |-> "nulo", s |-> <<"n","a","n">>]

Numero == [tipo |-> "num", s |-> <<"5">>]

\* What model.generate_content gives back: a response with text, a response
\* whose text is None, or an exception.
Respuesta(s) == [tipo |-> "texto", s |-> s]

SinTexto == [tipo |-> "vacio", s |-> <<>>]

Excepcion == [tipo |-> "error", s |-> <<>>]

\* " positivo extra text"
PositivoExtra ==
  Respuesta(<<" ","p","o","s","i","t","i","v","o"," ",
              "e","x","t","r","a"," ","t","e","x","t">>)

\* ------------------------------------------------------------- the corpus
\* The tweets the scraping actors can return, in conversation order.  The
\* last one is the analysed tweet itself; tweet 13 is tweet 1 fetched again.
tweet_id == "t14"

Corpus ==
  << [id |-> "t1",  url |-> "u1",  text |-> Str(<<"g","o","o","d">>)],
     [id |-> "t2",  url |-> "u2",  text |-> Str(<<>>)],
     [id |-> "t3",  url |-> "u3",  text |-> Str(<<"b","a","d">>)],
     [id |-> "t4",  url |-> "u4",  text |-> Str(<<"m","e","h">>)],
     [id |-> "t5",  url |-> "u5",  text |-> Str(<<"h","m">>)],
     [id |-> "t6",  url |-> "u6",  text |-> Str(<<"e","h">>)],
     [id |-> "t7",  url |-> "u7",  text |-> Str(<<"x">>)],
     [id |-> "t8",  url |-> "u8",  text |-> Str(<<" ","o","k","\n">>)],
     [id |-> "t9",  url |-> "u9",  text |-> Str(<<"s","o">>)],
     [id |-> "t10", url |-> "u10", text |-> Numero],
     [id |-> "t11", url |-> "u11", text |-> Str(<<" ","\t"," ">>)],
     [id |-> "t12", url |-> "u12", text |-> Nulo],
     [id |-> "t1",  url |-> "u1",  text |-> Str(<<"g","o","o","d">>)],
     [id |-> "t14", url |-> "u14", text |-> Str(<<"o","p">>)] >>

\* The answer of the external model to each tweet text (a test double of
\* generate_content); any call may raise instead, see Terminar.
ModeloExterno(texto) ==
  CASE texto = <<"g","o","o","d">> -> Respuesta(POSITIVO)
    [] texto = <<"b","a","d">>     -> Respuesta(<<"n","e","g","a","t","i","v","o","\n">>)
    [] texto = <<"m","e","h">>     -> PositivoExtra
    [] texto = <<"h","m">>         -> Respuesta(NEUTRO)
    [] texto = <<"e","h">>         -> Respuesta(<<"n","e","u","t","r","a","l">>)
    [] texto = <<"x">>             -> SinTexto
    [] texto = <<" ","o","k","\n">> -> Respuesta(<<"P","o","s","i","t","i","v","o",".">>)
    [] texto = <<"s","o">>         -> Respuesta(<<" "," ">>)
    [] OTHER                       -> Respuesta(NEGATIVO)

\* The items an actor run returns: n consecutive tweets of the corpus from
\* position a on, wrapping around.
Ventana(a, n) == [j \in 1..n |-> Corpus[((a + j - 2) % Len(Corpus)) + 1]]

\* ---------------------------------------------------------------- scrapers
RECURSIVE Filtrar(_, _)
\* df[df['id'].astype(str) != str(tweet_id)]
Filtrar(items, id) ==
  IF items = <<>> THEN <<>>
  ELSE IF items[1].id = id THEN Filtrar(Tail(items), id)
       ELSE <<items[1]>> \o Filtrar(Tail(items), id)

\* _ensure_cols(df, cols) and df["tipo"] = ...: the id column is dropped.
Columnas(items, tipo) ==
  [j \in 1..Len(items) |->
     [url |-> items[j].url, text |-> items[j].text, tipo |-> tipo]]

get_replies(items) == Columnas(Filtrar(items, tweet_id), "reply")

get_quotes(items) == Columnas(items, "quote")

RECURSIVE drop_duplicates(_)
\* df.drop_duplicates(subset=["url"]).reset_index(drop=True): the first row
\* of each url is kept.
drop_duplicates(df) ==
  IF df = <<>> THEN <<>>
  ELSE LET resto == drop_duplicates(SubSeq(df, 1, Len(df) - 1))
           ultima == df[Len(df)]
       IN  IF \E j \in 1..Len(resto) : resto[j].url = ultima.url
           THEN resto
           ELSE Append(resto, ultima)

\* pd.concat([df_replies, df_quotes], ignore_index=True)
concat(a, b) == a \o b

\* ----------------------------------------------------------- classification
\* Faulty variant of EsValido: the strip() test is left out.
EsValidoSinStrip(t) == t.tipo # "nulo"

\* pd.notna(t) and str(t).strip()
EsValido(t) == t.tipo # "nulo" /\ strip(t.s) # <<>>

RECURSIVE Validos(_, _)
\* [(i, t) for i, t in enumerate(df_todos["text"]) if ...], positions from i on
Validos(df, i) ==
  IF i > Len(df) THEN <<>>
  ELSE IF EsValido(df[i].text) THEN <<[i |-> i, t |-> df[i].text]>> \o Validos(df, i + 1)
       ELSE Validos(df, i + 1)

\* Faulty variant of ResultadosIniciales: one entry per dispatched pair.
ResultadosInicialesCorto(df) == [i \in 1..Len(Validos(df, 1)) |-> NEUTRO]

\* ["NEUTRO"] * len(df_todos)
ResultadosIniciales(df) == [i \in 1..Len(df) |-> NEUTRO]

\* not model or not isinstance(texto, str) or not texto.strip(): the guard
\* that returns before any request is made.
SinPeticion(m, texto) == ~m \/ texto.tipo # "str" \/ strip(texto.s) = <<>>

\* Faulty variant of Normalizar: the [:8] slice is left out.
NormalizarSinCorte(resp) ==
  Unico({ IF r = <<>> THEN NEUTRO ELSE r : r \in {upper(strip(resp.s))} })

\* (resp.text or "").strip().upper()[:8] or "NEUTRO"
Normalizar(resp) ==
  Unico({ IF r = <<>> THEN NEUTRO ELSE r :
            r \in {Prefijo(upper(strip(resp.s)), LargoPrefijo)} })

\* Faulty variant of clasificar_tweet: the except branch returns another
\* string than the default label.
clasificar_tweet_sin_defecto(m, texto, resp) ==
  IF SinPeticion(m, texto) THEN [lanza |-> FALSE, valor |-> NEUTRO]
  ELSE IF resp.tipo = "error" THEN [lanza |-> FALSE, valor |-> <<"E","R","R","O","R">>]
       ELSE [lanza |-> FALSE, valor |-> Normalizar(resp)]

\* clasificar_tweet(texto, contexto), given what generate_content does when
\* it is called: the value returned, or lanza when an exception leaves it.
clasificar_tweet(m, texto, resp) ==
  IF SinPeticion(m, texto) THEN [lanza |-> FALSE, valor |-> NEUTRO]
  ELSE IF resp.tipo = "error" THEN [lanza |-> FALSE, valor |-> NEUTRO]
       ELSE [lanza |-> FALSE, valor |-> Normalizar(resp)]

\* ------------------------------------------------------------------- state
VARIABLES
  datos_replies,   \* the items in the dataset of the reply actor's run
  datos_quotes,    \* the items in the dataset of the quote actor's run
  pc,              \* where the run of main_app is
  model,           \* TRUE when genai.GenerativeModel was built, FALSE for None
  df_replies,      \* replies table after download and deduplication
  df_quotes,       \* quotes table after download and deduplication
  df_todos,        \* the concatenated table handed to the analysis
  creado,          \* resultados_sent has been assigned
  resultados_sent, \* the label list
  tweets_validos,  \* the (i, t) pairs dispatched
  futures,         \* futures[k]: the position the k-th submitted future is for
  estado,          \* estado[k]: "pendiente", "ejecutando" or "terminado"
  resultado,       \* resultado[k]: what the k-th future holds once terminated
  recogidos,       \* futures already yielded by as_completed
  done,            \* the completed counter of the progress bar
  total,           \* len(tweets_validos)
  llamadas,        \* llamadas[i]: generate_content calls made to classify row i
  fallidos,        \* rows whose generate_content call raised
  sentimiento,     \* the "sentimiento" column once attached
  temas_llamadas,  \* generate_content calls made by extraer_temas_con_ia
  por_tipo,        \* rows shown under each of the three sentiment headings
  cruda,           \* a response of generate_content given to the normalisation
  etiqueta,        \* the label clasificar_tweet makes of cruda
  escrituras,      \* escrituras[i]: the threads that assigned resultados_sent[i]
  progress_bar,    \* the fraction shown by the progress bar, <<>> when empty
  status_text,     \* the count shown by the status text, <<>> when empty
  aviso            \* the kind of the last st.success/error/warning/info

datos == << datos_replies, datos_quotes >>

vars ==
  << datos, pc, model, df_replies, df_quotes, df_todos, creado, resultados_sent,
     tweets_validos, futures, estado, resultado, recogidos, done, total,
     llamadas, fallidos, sentimiento, temas_llamadas, por_tipo, cruda,
     etiqueta, escrituras, progress_bar, status_text, aviso >>

\* Largest number of classification requests that raise in one run.
MaxFallas == 1

Posiciones == 1..Len(df_todos)

Ejecutando == {k \in 1..Len(futures) : estado[k] = "ejecutando"}

\* The classification requests sent and not yet answered.
EnVuelo == {k \in Ejecutando : ~SinPeticion(model, df_todos[futures[k]].text)}

\* What the two actor runs can return together: a stretch of the corpus, its
\* first n tweets as replies and the next m as quotes.
Datasets(arranques, maximo) ==
  { << Ventana(a, n), Ventana(a + n, m) >> :
      a \in arranques, n \in 0..maximo, m \in 0..MaxCitas }

Init ==
  /\ \E d \in Datasets(1..Len(Corpus), MaxItems) :
       /\ Len(d[1]) + Len(d[2]) <= MaxItems
       /\ datos_replies = d[1]
       /\ datos_quotes = d[2]
  /\ pc = "inicio"
  /\ model \in BOOLEAN
  /\ df_replies = <<>>
  /\ df_quotes = <<>>
  /\ df_todos = <<>>
  /\ creado = FALSE
  /\ resultados_sent = <<>>
  /\ tweets_validos = <<>>
  /\ futures = <<>>
  /\ estado = <<>>
  /\ resultado = <<>>
  /\ recogidos = {}
  /\ done = 0
  /\ total = 0
  /\ llamadas = <<>>
  /\ fallidos = {}
  /\ sentimiento = <<>>
  /\ temas_llamadas = 0
  /\ por_tipo = [c \in Categorias |-> {}]
  /\ cruda = SinTexto
  /\ etiqueta = <<>>
  /\ escrituras = <<>>
  /\ progress_bar = <<>>
  /\ status_text = <<>>
  /\ aviso = "ninguno"

\* ----------------------------------------------------------------- actions
\* Lines 273-287: both downloads, each deduplicated by url.  The id tests of
\* lines 275 and 283 never apply: _ensure_cols has dropped the id column.
Descargar ==
  /\ pc = "inicio"
  /\ df_replies' = drop_duplicates(get_replies(datos_replies))
  /\ df_quotes' = drop_duplicates(get_quotes(datos_quotes))
  /\ pc' = "descargado"
  /\ aviso' = "success"
  /\ UNCHANGED << model, df_todos, creado, resultados_sent, tweets_validos,
                  futures, estado, resultado, recogidos, done, total,
                  llamadas, fallidos, sentimiento, temas_llamadas, por_tipo,
                  cruda, etiqueta, datos,
                  escrituras, progress_bar, status_text >>

\* extraer_temas_con_ia(textos, ...): one request unless no text is left.
PeticionesDeTemas(textos) ==
  IF \E j \in 1..Len(textos) : strip(textos[j]) # <<>> THEN 1 ELSE 0

RECURSIVE TextosNoNulos(_)
\* df["text"].dropna().astype(str).tolist()
TextosNoNulos(df) ==
  IF df = <<>> THEN <<>>
  ELSE IF df[1].text.tipo = "nulo" THEN TextosNoNulos(Tail(df))
       ELSE <<df[1].text.s>> \o TextosNoNulos(Tail(df))

\* Faulty variant of SinModelo: the test of line 302 is left out.
SinModeloSinPrueba(m) == FALSE

\* if not model (line 302)
SinModelo(m) == ~m

\* min(done / total, 1.0), as numerator and denominator.
Fraccion(d, t) == IF d >= t THEN <<1, 1>> ELSE <<d, t>>

\* Lines 301-334: the button handler up to the creation of the pool.
Analizar ==
  /\ pc = "descargado"
  /\ IF SinModelo(model)
     THEN /\ pc' = "detenido"
          /\ aviso' = "error"
          /\ UNCHANGED << df_todos, creado, resultados_sent, tweets_validos,
                          total, llamadas, temas_llamadas, escrituras,
                          progress_bar, status_text >>
     ELSE LET todos == concat(df_replies, df_quotes)
              validos == Validos(todos, 1)
          IN  /\ df_todos' = todos
              /\ IF todos = <<>>
                 THEN /\ pc' = "detenido"
                      /\ aviso' = "warning"
                      /\ UNCHANGED << creado, resultados_sent, tweets_validos,
                                      total, llamadas, temas_llamadas,
                                      escrituras, progress_bar, status_text >>
                 ELSE /\ temas_llamadas' = PeticionesDeTemas(TextosNoNulos(todos))
                      /\ creado' = TRUE
                      /\ resultados_sent' = ResultadosIniciales(todos)
                      /\ escrituras' = [i \in 1..Len(todos) |-> <<>>]
                      /\ tweets_validos' = validos
                      /\ llamadas' = [i \in 1..Len(todos) |-> 0]
                      /\ IF validos = <<>>
                         THEN /\ pc' = "sin_texto"
                              /\ aviso' = "info"
                              /\ UNCHANGED << total, progress_bar, status_text >>
                         ELSE /\ pc' = "enviando"
                              /\ total' = Len(validos)
                              /\ progress_bar' = Fraccion(0, 1)
                              /\ status_text' = <<>>
                              /\ UNCHANGED aviso
  /\ UNCHANGED << model, df_replies, df_quotes, futures, estado, resultado,
                  recogidos, done, fallidos, sentimiento, por_tipo,
                  cruda, etiqueta, datos >>

\* Line 337: executor.submit(clasificar_tweet, t, contexto) for the next pair.
Enviar ==
  /\ pc = "enviando"
  /\ LET k == Len(futures) + 1
     IN  /\ futures' = Append(futures, tweets_validos[k].i)
         /\ estado' = Append(estado, "pendiente")
         /\ resultado' = Append(resultado, [lanza |-> FALSE, valor |-> <<>>])
         /\ pc' = IF k = Len(tweets_validos) THEN "recogiendo" ELSE "enviando"
  /\ UNCHANGED << model, df_replies, df_quotes, df_todos, creado,
                  resultados_sent, tweets_validos, recogidos, done, total,
                  llamadas, fallidos, sentimiento, temas_llamadas, por_tipo,
                  cruda, etiqueta, datos,
                  escrituras, progress_bar, status_text, aviso >>

\* Faulty variant of HayHiloLibre: one thread too many.
HayHiloLibreDeMas(ocupados) == Cardinality(ocupados) <= max_workers

\* ThreadPoolExecutor(max_workers=5): a queued item is taken while fewer
\* than max_workers threads are busy.
HayHiloLibre(ocupados) == Cardinality(ocupados) < max_workers

\* A worker thread takes future k, the oldest item of the executor's work
\* queue, and enters clasificar_tweet: past the guard of line 227 it sends
\* the request of line 236.
Arrancar(k) ==
  /\ estado[k] = "pendiente"
  /\ \A j \in 1..(k - 1) : estado[j] # "pendiente"
  /\ HayHiloLibre(Ejecutando)
  /\ estado' = [estado EXCEPT ![k] = "ejecutando"]
  /\ llamadas' =
       IF SinPeticion(model, df_todos[futures[k]].text) THEN llamadas
       ELSE [llamadas EXCEPT ![futures[k]] = @ + 1]
  /\ UNCHANGED << pc, model, df_replies, df_quotes, df_todos, creado,
                  resultados_sent, tweets_validos, futures, resultado,
                  recogidos, done, total, fallidos, sentimiento,
                  temas_llamadas, por_tipo,
                  cruda, etiqueta, datos,
                  escrituras, progress_bar, status_text, aviso >>

\* What the request for a text can end with: the answer of the external
\* model or an exception.  When the guard of line 227 returns there is no
\* request, and nothing comes back.
Desenlaces(texto) ==
  IF SinPeticion(model, texto) THEN {SinTexto}
  ELSE {ModeloExterno(texto.s)} \cup
         (IF Cardinality(fallidos) < MaxFallas THEN {Excepcion} ELSE {})

\* Faulty variant of EstadoTrasRespuesta: a failed request is queued again.
EstadoTrasReintento(resp) ==
  IF resp.tipo = "error" THEN "pendiente" ELSE "terminado"

\* The return of lines 237 and 239 ends the work item, whatever the request
\* gave: there is no loop around the request.
EstadoTrasRespuesta(resp) ==
  IF resp.tipo \in {"texto", "vacio", "error"} THEN "terminado" ELSE "ejecutando"

\* clasificar_tweet returns (lines 228, 237, 239) and the future is done.
Terminar(k) ==
  /\ estado[k] = "ejecutando"
  /\ \E resp \in Desenlaces(df_todos[futures[k]].text) :
       /\ resultado' =
            [resultado EXCEPT ![k] = clasificar_tweet(model, df_todos[futures[k]].text, resp)]
       /\ estado' = [estado EXCEPT ![k] = EstadoTrasRespuesta(resp)]
       /\ fallidos' = IF resp.tipo = "error"
                      THEN fallidos \cup {futures[k]} ELSE fallidos
  /\ UNCHANGED << pc, model, df_replies, df_quotes, df_todos, creado,
                  resultados_sent, tweets_validos, futures, recogidos, done,
                  total, llamadas, sentimiento, temas_llamadas, por_tipo,
                  cruda, etiqueta, datos,
                  escrituras, progress_bar, status_text, aviso >>

\* Faulty variant of IndiceDe: the position in the dispatch order.
IndiceDePorOrden(fs, k) == k

\* idx = futures[f]
IndiceDe(fs, k) == fs[k]

\* Lines 340-343: f.result(), or NEUTRO when it raises.
EtiquetaDe(r) == IF r.lanza THEN NEUTRO ELSE r.valor

\* The thread that runs main_app, and with it the as_completed loop; the
\* threads of the pool run clasificar_tweet only.
HiloPrincipal == "MainThread"

\* Faulty variant of PorEntregar: a future is yielded again.
PorEntregarOtraVez(k, vistos) == TRUE

\* as_completed yields each future once.
PorEntregar(k, vistos) == k \notin vistos

\* Faulty variant of Avance: the counter is advanced twice.
AvanceDoble(d) == d + 2

\* done += 1
Avance(d) == d + 1

\* Lines 338-346: one iteration of the as_completed loop, for a future that
\* is done and was not yielded yet.
Recoger(k) ==
  /\ pc = "recogiendo"
  /\ estado[k] = "terminado"
  /\ PorEntregar(k, recogidos)
  /\ resultados_sent' =
       [resultados_sent EXCEPT ![IndiceDe(futures, k)] = EtiquetaDe(resultado[k])]
  /\ escrituras' =
       [escrituras EXCEPT ![IndiceDe(futures, k)] = Append(@, HiloPrincipal)]
  /\ done' = Avance(done)
  /\ progress_bar' = Fraccion(Avance(done), total)
  /\ status_text' = <<Avance(done), total>>
  /\ recogidos' = recogidos \cup {k}
  /\ UNCHANGED << pc, model, df_replies, df_quotes, df_todos, creado,
                  tweets_validos, futures, estado, resultado, total,
                  llamadas, fallidos, sentimiento, temas_llamadas, por_tipo,
                  cruda, etiqueta, datos,
                  aviso >>

\* Faulty variant of BucleTerminado: the loop is left after the first future.
BucleTerminadoPronto(fs, vistos) == vistos # {}

\* as_completed is exhausted once it has yielded every future.
BucleTerminado(fs, vistos) == vistos = 1..Len(fs)

\* Lines 348-351: the loop and the with block are left, the labels are
\* attached to the table.
Adjuntar ==
  /\ pc = "recogiendo"
  /\ BucleTerminado(futures, recogidos)
  /\ progress_bar' = <<>>
  /\ status_text' = <<>>
  /\ sentimiento' = resultados_sent
  /\ aviso' = "success"
  /\ pc' = "adjuntado"
  /\ UNCHANGED << model, df_replies, df_quotes, df_todos, creado,
                  resultados_sent, tweets_validos, futures, estado, resultado,
                  recogidos, done, total, llamadas, fallidos, temas_llamadas,
                  por_tipo,
                  cruda, etiqueta, datos,
                  escrituras >>

\* df_todos.loc[df_todos["sentimiento"] == tipo, "text"].dropna()
FilasDe(tipo) ==
  {i \in Posiciones : sentimiento[i] = tipo /\ df_todos[i].text.tipo # "nulo"}

\* Lines 451-462: the topics of each of the three sentiments.  Without a
\* sentimiento column (no text to classify) nothing is extracted.
TemasPorSentimiento ==
  /\ pc \in {"adjuntado", "sin_texto"}
  /\ IF pc = "adjuntado"
     THEN /\ por_tipo' = [c \in Categorias |-> FilasDe(c)]
          /\ temas_llamadas' = temas_llamadas +
               Cardinality({c \in Categorias :
                  \E i \in FilasDe(c) : strip(df_todos[i].text.s) # <<>>})
     ELSE UNCHANGED << por_tipo, temas_llamadas >>
  /\ pc' = "fin"
  /\ UNCHANGED << model, df_replies, df_quotes, df_todos, creado,
                  resultados_sent, tweets_validos, futures, estado, resultado,
                  recogidos, done, total, llamadas, fallidos, sentimiento,
                  cruda, etiqueta, datos,
                  escrituras, progress_bar, status_text, aviso >>

Trabajador == \E k \in 1..Len(futures) : Arrancar(k) \/ Terminar(k)

Recolector == \E k \in 1..Len(futures) : Recoger(k)

Next ==
  \/ Descargar
  \/ Analizar
  \/ Enviar
  \/ Trabajador
  \/ Recolector
  \/ Adjuntar
  \/ TemasPorSentimiento

Spec == Init /\ [][Next]_vars

\* The stretches of the corpus the runs of SpecJusta start from: the one of
\* the tweets that are all classified, and the one of the blank, null,
\* repeated and analysed tweets.
ArranquesJusta == {3, 11}

InitJusta ==
  /\ \E d \in Datasets(ArranquesJusta, MaxItems) :
       /\ Len(d[1]) + Len(d[2]) <= MaxItems
       /\ datos_replies = d[1]
       /\ datos_quotes = d[2]
  /\ pc = "inicio"
  /\ model \in BOOLEAN
  /\ df_replies = <<>>
  /\ df_quotes = <<>>
  /\ df_todos = <<>>
  /\ creado = FALSE
  /\ resultados_sent = <<>>
  /\ tweets_validos = <<>>
  /\ futures = <<>>
  /\ estado = <<>>
  /\ resultado = <<>>
  /\ recogidos = {}
  /\ done = 0
  /\ total = 0
  /\ llamadas = <<>>
  /\ fallidos = {}
  /\ sentimiento = <<>>
  /\ temas_llamadas = 0
  /\ por_tipo = [c \in Categorias |-> {}]
  /\ cruda = SinTexto
  /\ etiqueta = <<>>
  /\ escrituras = <<>>
  /\ progress_bar = <<>>
  /\ status_text = <<>>
  /\ aviso = "ninguno"

\* The same runs with the scheduling the code relies on: the main thread
\* goes on submitting, collecting and attaching, the worker threads take the
\* queued items, and every request to the external model ends.
SpecJusta ==
  /\ InitJusta
  /\ [][Next]_vars
  /\ WF_vars(Enviar)
  /\ WF_vars(Trabajador)
  /\ WF_vars(Recolector)
  /\ WF_vars(Adjuntar)

\* ------------------------------------------------- normalisation, alone
\* The responses tried on the normalisation of line 237: leading whitespace,
\* a word, and a tail.
Rellenos == { <<>>, <<" ">>, <<"\n"," ">> }

Palabras ==
  { POSITIVO, NEGATIVO, NEUTRO,
    <<"p","o","s","i","t","i","v","o">>, <<"P","o","s","i","t","i","v","o">>,
    <<"n","e","g","a","t","i","v","o">>, <<"n","e","u","t","r","o">>,
    <<"P","O","S","I","T","I","V">>, <<"p","o","s","i","t","i","v","a">>,
    <<"N","E","U","T","R","A","L">>, <<"N","O">>, <<>> }

Colas ==
  { <<>>, <<" ">>, <<".">>, <<"S">>,
    <<" ","e","x","t","r","a"," ","t","e","x","t">> }

Crudas ==
  {SinTexto} \cup
  {Respuesta(r \o p \o c) : r \in Rellenos, p \in Palabras, c \in Colas}

InitNorm ==
  /\ datos_replies = <<>>
  /\ datos_quotes = <<>>
  /\ pc = "norma"
  /\ model = TRUE
  /\ df_replies = <<>>
  /\ df_quotes = <<>>
  /\ df_todos = <<>>
  /\ creado = FALSE
  /\ resultados_sent = <<>>
  /\ tweets_validos = <<>>
  /\ futures = <<>>
  /\ estado = <<>>
  /\ resultado = <<>>
  /\ recogidos = {}
  /\ done = 0
  /\ total = 0
  /\ llamadas = <<>>
  /\ fallidos = {}
  /\ sentimiento = <<>>
  /\ temas_llamadas = 0
  /\ por_tipo = [c \in Categorias |-> {}]
  /\ cruda \in Crudas
  /\ etiqueta = <<>>
  /\ escrituras = <<>>
  /\ progress_bar = <<>>
  /\ status_text = <<>>
  /\ aviso = "ninguno"

\* Line 237 applied to cruda, for a tweet with text and a configured model.
NormalizarRespuesta ==
  /\ pc = "norma"
  /\ etiqueta' = clasificar_tweet(model, Str(<<"t","w","e","e","t">>), cruda).valor
  /\ pc' = "normalizada"
  /\ UNCHANGED << model, df_replies, df_quotes, df_todos, creado,
                  resultados_sent, tweets_validos, futures, estado, resultado,
                  recogidos, done, total, llamadas, fallidos, sentimiento,
                  temas_llamadas, por_tipo, cruda, datos,
                  escrituras, progress_bar, status_text, aviso >>

NextNorm == NormalizarRespuesta

SpecNorm == InitNorm /\ [][NextNorm]_vars

\* ------------------------------------------------------------------ claims
\* The labels are attached to the table (line 350 was executed).
Adjuntada == pc = "adjuntado" \/ (pc = "fin" /\ futures # <<>>)

\* A text that is null, empty or whitespace only.
SinContenido(t) ==
  t.tipo = "nulo" \/ (t.tipo = "str" /\ \A j \in 1..Len(t.s) : t.s[j] \in Espacios)

\* C1 as stated: resultados_sent has one entry per row of the table from its
\* creation on, and for an empty table the run produces an empty result
\* without any classification request.
C1_Original ==
  /\ creado => Len(resultados_sent) = Len(df_todos)
  /\ (model /\ pc = "detenido") =>
        /\ creado
        /\ resultados_sent = <<>>
        /\ futures = <<>>

\* C1, amended: resultados_sent has one entry per row of the table at every
\* point from its creation until it is attached; for an empty table the run
\* stops (line 309) before any label list is created, and no request is
\* dispatched or sent.
C1_Longitud ==
  /\ creado =>
        /\ Len(resultados_sent) = Len(df_todos)
        /\ Len(df_todos) >= 1
  /\ Adjuntada => Len(sentimiento) = Len(df_todos)
  /\ (model /\ pc = "detenido") =>
        /\ df_todos = <<>>
        /\ ~creado
        /\ futures = <<>>
        /\ llamadas = <<>>
        /\ temas_llamadas = 0

\* A table with rows that are not dispatched, part of its labels written.
C1_Testigo ==
  /\ pc = "recogiendo"
  /\ creado
  /\ Len(resultados_sent) = 3
  /\ Len(tweets_validos) = 2
  /\ Cardinality(recogidos) = 1

\* The label a position ends with, from the table and the failed requests
\* alone.
EtiquetaSegunTexto(i) ==
  LET t == df_todos[i].text
  IN  IF SinContenido(t) \/ t.tipo # "str" \/ i \in fallidos THEN NEUTRO
      ELSE Normalizar(ModeloExterno(t.s))

TextosDe(df) == [i \in 1..Len(df) |-> df[i].text]

GoodVacioBad ==
  << Str(<<"g","o","o","d">>), Str(<<>>), Str(<<"b","a","d">>) >>

\* C2: once the units have completed, in whatever order, the label at each
\* dispatched position is the one its own classification returned, so the
\* result depends on the table and not on the order of completion; the
\* texts ["good", "", "bad"] give [POSITIVO, NEUTRO, NEGATIVO].
C2_OrdenDeEntrada ==
  Adjuntada =>
    /\ \A k \in 1..Len(tweets_validos) :
         sentimiento[tweets_validos[k].i] = resultado[k].valor
    /\ \A i \in Posiciones : sentimiento[i] = EtiquetaSegunTexto(i)
    /\ (TextosDe(df_todos) = GoodVacioBad /\ fallidos = {}) =>
          sentimiento = <<POSITIVO, NEUTRO, NEGATIVO>>

\* The run of ["good", "", "bad"] without failures has ended.
C2_Testigo ==
  /\ pc = "adjuntado"
  /\ TextosDe(df_todos) = GoodVacioBad
  /\ fallidos = {}
  /\ sentimiento = <<POSITIVO, NEUTRO, NEGATIVO>>

\* C3: a position whose text is null, empty or whitespace only is never
\* submitted to the pool, no classification request is made for it, and its
\* label is NEUTRO, also in the attached column.
C3_Omitidos ==
  \A i \in Posiciones :
    SinContenido(df_todos[i].text) =>
      /\ \A k \in 1..Len(futures) : futures[k] # i
      /\ \A k \in 1..Len(tweets_validos) : tweets_validos[k].i # i
      /\ creado => (llamadas[i] = 0 /\ resultados_sent[i] = NEUTRO)
      /\ Adjuntada => sentimiento[i] = NEUTRO

\* A batch has ended with a null, an empty and a blank text beside a text
\* that was classified.
C3_Testigo ==
  /\ pc = "adjuntado"
  /\ \E i \in Posiciones : df_todos[i].text.tipo = "nulo" /\ sentimiento[i] = NEUTRO
  /\ \E i \in Posiciones : df_todos[i].text = Str(<<>>) /\ sentimiento[i] = NEUTRO
  /\ \E i \in Posiciones :
       df_todos[i].text = Str(<<" ","\t"," ">>) /\ sentimiento[i] = NEUTRO
  /\ \E i \in Posiciones : llamadas[i] = 1 /\ sentimiento[i] = POSITIVO

\* The label a position would end with if no request failed.
EtiquetaSinFallo(i) ==
  LET t == df_todos[i].text
  IN  IF SinContenido(t) \/ t.tipo # "str" THEN NEUTRO
      ELSE Normalizar(ModeloExterno(t.s))

\* C4: when the request for a position raises, the future of that position
\* still returns normally with NEUTRO, the batch goes on to its end, the
\* label of the position is NEUTRO and every other position has the label
\* it has when no request fails.
C4_FallaAislada ==
  /\ fallidos # {} => pc \in {"enviando", "recogiendo", "adjuntado", "fin"}
  /\ \A k \in 1..Len(futures) :
       estado[k] = "terminado" =>
         /\ ~resultado[k].lanza
         /\ futures[k] \in fallidos => resultado[k].valor = NEUTRO
  /\ Adjuntada =>
       /\ \A k \in 1..Len(futures) : estado[k] = "terminado" /\ k \in recogidos
       /\ \A i \in Posiciones :
            sentimiento[i] = IF i \in fallidos THEN NEUTRO ELSE EtiquetaSinFallo(i)

\* A batch has ended in which a request that would have given another label
\* failed, beside positions labelled POSITIVO and NEGATIVO.
C4_Testigo ==
  /\ pc = "adjuntado"
  /\ \E i \in fallidos : EtiquetaSinFallo(i) # NEUTRO /\ sentimiento[i] = NEUTRO
  /\ \E i \in Posiciones \ fallidos : sentimiento[i] = POSITIVO
  /\ \E i \in Posiciones \ fallidos : sentimiento[i] = NEGATIVO

\* C5 as stated: every label of the result is one of POSITIVO, NEGATIVO and
\* NEUTRO, whatever text the external model returns.
C5_Original ==
  /\ creado => \A i \in Posiciones : resultados_sent[i] \in Categorias
  /\ Adjuntada => \A i \in Posiciones : sentimiento[i] \in Categorias

EmpiezaCon(s, t) == Len(s) >= Len(t) /\ SubSeq(s, 1, Len(t)) = t

EnBlanco(s) == \A j \in 1..Len(s) : s[j] \in Espacios

\* C6 as stated: " positivo extra text" normalizes to NEUTRO, only a response
\* that is exactly POSITIVO or NEGATIVO (any case, surrounding whitespace)
\* normalizes to that label, an empty or missing response to NEUTRO.
C6_Original ==
  pc = "normalizada" =>
    /\ cruda = PositivoExtra => etiqueta = NEUTRO
    /\ \A t \in {POSITIVO, NEGATIVO} : etiqueta = t <=> upper(strip(cruda.s)) = t
    /\ (cruda.tipo = "vacio" \/ cruda.s = <<>>) => etiqueta = NEUTRO

\* C6, amended: a response whose trimmed, upper-cased text begins with
\* POSITIVO or NEGATIVO normalizes to that label, and no other response
\* does; " positivo extra text" normalizes to POSITIVO; an empty, blank or
\* missing response normalizes to NEUTRO.
C6_Prefijo ==
  pc = "normalizada" =>
    /\ cruda = PositivoExtra => etiqueta = POSITIVO
    /\ \A t \in {POSITIVO, NEGATIVO} :
         etiqueta = t <=> EmpiezaCon(upper(strip(cruda.s)), t)
    /\ (cruda.tipo = "vacio" \/ EnBlanco(cruda.s)) => etiqueta = NEUTRO

\* " positivo extra text" has been normalized.
C6_Testigo ==
  /\ pc = "normalizada"
  /\ cruda = PositivoExtra
  /\ etiqueta = POSITIVO

\* C7: at most 5 worker threads are busy and at most 5 classification
\* requests are sent and unanswered, also with more than 5 units submitted;
\* the other units are queued.
C7_Limite ==
  /\ Cardinality(Ejecutando) <= max_workers
  /\ Cardinality(EnVuelo) <= max_workers
  /\ \A k \in 1..Len(futures) : estado[k] \in {"pendiente", "ejecutando", "terminado"}

\* Six units are submitted, five requests are in flight, the sixth waits.
C7_Testigo ==
  /\ Len(futures) = 6
  /\ Cardinality(EnVuelo) = 5
  /\ \E k \in 1..Len(futures) : estado[k] = "pendiente"

\* Nothing of the batch is left to do.
LoteCompleto ==
  /\ Len(futures) = Len(tweets_validos)
  /\ \A k \in 1..Len(futures) : estado[k] = "terminado"
  /\ recogidos = 1..Len(futures)
  /\ done = total

\* C8: when the labels are attached no unit is queued or running, every
\* future was collected and every position holds a label; and a batch that
\* has started is eventually attached.
C8_Termina ==
  /\ [](Adjuntada =>
          /\ LoteCompleto
          /\ Len(sentimiento) = Len(df_todos)
          /\ \A i \in Posiciones : sentimiento[i] # <<>>)
  /\ (pc = "enviando" ~> pc = "adjuntado")

\* A batch of several units, some of them failed, is attached.
C8_Testigo ==
  /\ pc = "adjuntado"
  /\ Len(futures) >= 3
  /\ fallidos # {}
  /\ LoteCompleto

\* C9 as stated: in the table handed to the analysis no two rows have the
\* same url.
C9_Original ==
  (model /\ pc \notin {"inicio", "descargado"}) =>
    \A i, j \in Posiciones : i # j => df_todos[i].url # df_todos[j].url

EnviosDe(i) == {k \in 1..Len(futures) : futures[k] = i}

\* C10: a position with text is submitted exactly once and a position
\* without never, at most one classification request is made for a
\* position, and after a request has failed none follows for its position.
C10_SinReintento ==
  /\ [](\A i \in Posiciones :
          /\ Cardinality(EnviosDe(i)) <= 1
          /\ creado => llamadas[i] <= 1
          /\ (pc \in {"recogiendo", "adjuntado"} /\ ~SinContenido(df_todos[i].text))
                => Cardinality(EnviosDe(i)) = 1)
  /\ [][\A i \in fallidos :
          /\ llamadas'[i] = llamadas[i]
          /\ \A k \in EnviosDe(i) : estado'[k] = "terminado"]_vars

\* A batch has ended in which a request failed and was made once.
C10_Testigo ==
  /\ pc = "adjuntado"
  /\ \E i \in fallidos : llamadas[i] = 1 /\ Cardinality(EnviosDe(i)) = 1

\* The positions of the table that are dispatched: the text is not null,
\* empty or whitespace only.
Elegible(i) == ~SinContenido(df_todos[i].text)

\* The positions whose list of writers differs between the two.
Escritas(antes, despues) == {i \in 1..Len(antes) : despues[i] # antes[i]}

\* C11: after the labels are initialised to NEUTRO an eligible position is
\* assigned at most once while the futures are collected and exactly once
\* when the batch has ended, a position that is not eligible is never
\* assigned, and no two assignments (to the labels or to the completed
\* counter) overlap: every one is made by the thread of the as_completed
\* loop, one position and one count per step, and no step of a worker
\* thread touches the labels or the counter, in every order of completion.
C11_EscrituraUnica ==
  /\ [](creado =>
         \A i \in Posiciones :
           /\ Len(escrituras[i]) <= 1
           /\ \A j \in 1..Len(escrituras[i]) : escrituras[i][j] = HiloPrincipal
           /\ Len(escrituras[i]) = Cardinality({k \in recogidos : futures[k] = i})
           /\ escrituras[i] = <<>> => resultados_sent[i] = NEUTRO
           /\ ~Elegible(i) => escrituras[i] = <<>>
           /\ (Adjuntada /\ Elegible(i)) => Len(escrituras[i]) = 1)
  /\ [][creado =>
         /\ Cardinality(Escritas(escrituras, escrituras')) <= 1
         /\ Cardinality(Escritas(resultados_sent, resultados_sent')) <= 1
         /\ Escritas(resultados_sent, resultados_sent') \subseteq
              Escritas(escrituras, escrituras')
         /\ \A i \in Escritas(escrituras, escrituras') :
              /\ pc = "recogiendo"
              /\ escrituras'[i] = Append(escrituras[i], HiloPrincipal)
              /\ done' = done + 1
         /\ done' # done => Cardinality(Escritas(escrituras, escrituras')) = 1
         /\ estado' # estado =>
              /\ resultados_sent' = resultados_sent
              /\ escrituras' = escrituras
              /\ done' = done]_vars

\* Three futures have completed in another order than they were submitted
\* and wait together to be collected; one position has been assigned, and a
\* position without text has not.
C11_Testigo ==
  /\ pc = "recogiendo"
  /\ Len(futures) >= 4
  /\ Cardinality({k \in 1..Len(futures) : estado[k] = "terminado"} \ recogidos) >= 2
  /\ \E k \in 1..Len(futures) :
       /\ k \in recogidos
       /\ escrituras[futures[k]] = <<HiloPrincipal>>
       /\ \E j \in 1..(k - 1) : estado[j] = "ejecutando"
  /\ \E i \in Posiciones : ~Elegible(i) /\ escrituras[i] = <<>>

\* C12: the completed counter is 0 when the batch starts (and so is the
\* progress bar), it is the number of futures collected so far, the status
\* text shows it over the number of dispatched items, it never exceeds that
\* number and equals it once the labels are attached; a step changes it
\* only by adding 1, and does so for every future collected, failed or not.
\* The attached labels are those given by the table and the failed requests
\* alone, whatever was reported on the way.
C12_Progreso ==
  /\ [](/\ 0 <= done /\ done <= total
        /\ total = Len(tweets_validos)
        /\ done = Cardinality(recogidos)
        /\ pc = "enviando" => (done = 0 /\ progress_bar = <<0, 1>>)
        /\ status_text # <<>> => status_text = <<done, total>>
        /\ (pc = "recogiendo" /\ done > 0) =>
              /\ status_text = <<done, total>>
              /\ progress_bar = IF done = total THEN <<1, 1>> ELSE <<done, total>>
        /\ Adjuntada =>
              /\ done = total
              /\ \A i \in Posiciones : sentimiento[i] = EtiquetaSegunTexto(i))
  /\ [][/\ done' >= done
        /\ done' # done =>
              /\ done' = done + 1
              /\ \E k \in 1..Len(futures) :
                   /\ estado[k] = "terminado"
                   /\ k \notin recogidos
                   /\ recogidos' = recogidos \cup {k}
        /\ recogidos' # recogidos => done' = done + 1]_vars

\* Two of three futures have been collected, one of them for a request that
\* failed, and 2/3 is reported.
C12_Testigo ==
  /\ pc = "recogiendo"
  /\ total = 3
  /\ done = 2
  /\ status_text = <<2, 3>>
  /\ progress_bar = <<2, 3>>
  /\ \E k \in recogidos : futures[k] \in fallidos
  /\ \E k \in recogidos : futures[k] \notin fallidos

\* C13: without a configured model (model is None) the run never gets past
\* the button: pressing it stops the run with the error message, and at no
\* point is a table handed to the analysis, a label list created or
\* attached, a unit submitted to the pool or a request sent to the external
\* model, be it for a label or for the topics; the error message is shown in
\* no other case.
C13_SinModelo ==
  /\ ~model =>
       /\ pc \in {"inicio", "descargado", "detenido"}
       /\ pc = "detenido" <=> aviso = "error"
       /\ df_todos = <<>>
       /\ ~creado
       /\ resultados_sent = <<>>
       /\ sentimiento = <<>>
       /\ tweets_validos = <<>>
       /\ futures = <<>>
       /\ estado = <<>>
       /\ done = 0
       /\ llamadas = <<>>
       /\ fallidos = {}
       /\ temas_llamadas = 0
  /\ aviso = "error" => ~model

\* The button was pressed without a model on downloaded tweets with text,
\* and the run has stopped with the error.
C13_Testigo ==
  /\ ~model
  /\ pc = "detenido"
  /\ aviso = "error"
  /\ Validos(concat(df_replies, df_quotes), 1) # <<>>
  /\ Len(df_replies) >= 2
  /\ Len(df_quotes) >= 1
  /\ futures = <<>>
  /\ ~creado

=============================================================================
